---- MODULE Spec2Model ----
(***************************************************************************)
(* Playback session of the somars internet-radio client.                   *)
(*                                                                         *)
(* The tick loop owns the App fields (playback_state, active_station,      *)
(* playback_start_time, total_played, last_pause_time, volume, selection); *)
(* every play spawns a background connect task that shares the one rodio   *)
(* Sink with the tick loop.  Time is a discrete clock: an Instant is a     *)
(* natural number, a Duration a difference of two Instants.  A volume is   *)
(* an f32, written as the integer  value * 2^27.                           *)
(***************************************************************************)
EXTENDS Integers, Sequences, FiniteSets, TLC

\* ---- bounds of the model ----
NumStations == 2      \* length of the list a successful fetch delivers
MaxTime     == 3      \* the clock stops advancing here
MaxDelta    == 2      \* largest single advance of the clock
MaxPlays    == 2      \* connect tasks spawned in one run
MaxSelected == 2      \* cap on the cursor when it runs past an empty list
MaxMonitorTime == 45  \* SpecMonitor: the clock stops advancing here, in ticks of 250 ms
MaxKeyTime  == 1      \* SpecMonitor: key commands arrive until this time
MaxPosition == 2      \* SpecMonitor: ticks of audio a stream delivers before it stalls
MaxAttempts == 7      \* SpecBackoff: restarts in a row without a successful reconnect
MaxBackoffTime == 250 \* SpecBackoff: the clock stops advancing here, in ticks of 250 ms
MaxVolumeDrift == 1   \* SpecAll: volume keys are taken while fewer than this many steps from VolumeInit
MaxTokens == 2        \* SpecControl: words in a datagram
MaxDatagrams == 3     \* SpecControl: datagrams that arrive
MaxQueue == 2         \* SpecControl: room in the command queue
MaxBurst == 33        \* SpecLogChannel: titles the metadata task forwards

\* ---- program constants ----
None       == -1      \* Option::None of an Instant or an index
VolumeInit == 134217728   \* volume: 1.0
VolumeMax  == 268435456   \* app.volume < 2.0
VolumeMin  == 0           \* app.volume > 0.0
Tenth      == 13421773    \* 0.1 as an f32
Grace        == 20        \* the grace period of 5 s, in monitor ticks of 250 ms
BackoffFloor == 2         \* the first backoff of 0.5 s, in ticks
BackoffCap   == 120       \* the largest backoff of 30 s, in ticks
LogCapacity  == 32        \* tokio::sync::mpsc::channel(32)

VARIABLES
    now,                  \* wall clock (std::time::Instant::now())
    loading,              \* app.loading
    stations,             \* app.stations.len()
    selected,             \* app.selected_station.selected()
    active_station,       \* app.active_station
    playback_state,       \* app.playback_state
    playback_start_time,  \* app.playback_start_time
    total_played,         \* app.total_played
    last_pause_time,      \* app.last_pause_time
    volume,               \* app.volume
    sink,                 \* the shared rodio Sink: queue of sources, paused flag, volume
    tasks,                \* connect tasks spawned by handle_play, still in flight
    plays,                \* number of connect tasks spawned so far (task identity)
    outcome,              \* how the connect of the latest play ended, if it has
    panicked,             \* the tick loop died of an arithmetic overflow panic
    op,                   \* the step taken last
    conv,                 \* the last playback commands: P a play, S a stop(soft=false)
    seq,                  \* position in the run  play (pause resume)* stop
    bindingPlayed,        \* time the current station binding spent in state Playing
    arg,                  \* the value of the last SetVolume command
    station_loading,      \* UnderrunTracker: a fresh connect is in flight
    playback_start_time_for_underrun,   \* UnderrunTracker: anchor of the grace period
    last_restart_time,    \* UnderrunTracker: Instant of the last triggered restart, or None
    restart_attempts,     \* UnderrunTracker: restarts since the last successful reconnect
    required_backoff,     \* the backoff the monitor computed last
    position,             \* playback position of the sink
    last_position,        \* UnderrunTracker: position at the previous monitor tick
    underrun_detected,    \* the observability flag
    underruns,            \* underrun-detected Error entries logged
    tick_due,             \* a UI tick has passed and the monitor has not looked yet
    connects,             \* per connect task: where it stands, what failed, how it ended
    log_chan,             \* the mpsc channel of HistoryMessages on its way to the tick loop
    history,              \* the history log the tick loop has drained the channel into
    poisoned,             \* a task has panicked while it held the lock of the Sink
    duration,             \* the Duration handed to format_duration, in milliseconds
    formatted,            \* the String format_duration returned, one character per element
    should_quit,          \* App.should_quit
    host,                 \* where main is: "loop", "exited" after the cleanup, "panicked"
    holder,               \* who holds the Mutex of the Sink: "free", "loop", "task"
    loop_at,              \* the handler the tick loop holds the lock for, or "idle"
    locker,               \* the number of the connect task that holds the lock, or 0
    datagram,             \* the tokens of the last datagram the control listener received
    cmd_queue,            \* the ControlCommands received and not yet applied
    listening,            \* the control listener is running
    received,             \* how many datagrams have arrived
    sent                  \* how many log messages each producer has sent

session == <<active_station, playback_state, playback_start_time, total_played, last_pause_time>>
timing  == <<playback_start_time, total_played, last_pause_time>>
vars == <<now, loading, stations, selected, active_station, playback_state,
          playback_start_time, total_played, last_pause_time, volume, sink,
          tasks, plays, outcome, panicked, op, conv, seq, bindingPlayed, arg,
          station_loading, playback_start_time_for_underrun, last_restart_time,
          restart_attempts, required_backoff, position, last_position, underrun_detected,
          underruns, tick_due, connects, log_chan, history, poisoned,
          duration, formatted, should_quit, host, holder, loop_at, locker,
          datagram, cmd_queue, listening, received, sent>>

connectLog == <<connects, log_chan, history, poisoned>>

tracker == <<station_loading, playback_start_time_for_underrun, last_restart_time,
             restart_attempts, required_backoff, position, last_position,
             underrun_detected, underruns, tick_due>>

\* what the playback session of Spec and SpecAll leaves alone
fmt == <<duration, formatted>>

\* the variables of the specifications that stand beside the playback session
hostLoop == <<should_quit, host>>

sinkLock == <<holder, loop_at, locker>>

control == <<datagram, cmd_queue, listening, received>>

extra == <<fmt, hostLoop, sinkLock, control, sent>>

aux == <<arg, tracker, connectLog, extra>>

\* Instant::duration_since: saturates to zero when `earlier` is the later one
DurationSince(later, earlier) == IF later >= earlier THEN later - earlier ELSE 0

\* Instant::elapsed
Elapsed(start) == DurationSince(now, start)

\* f32 arithmetic on volumes: the exact sum is rounded to the nearest f32, ties
\* to the even mantissa; Ulp is the spacing of f32 values around a, in units
\* of 2^-27
Ulp(a) ==
    IF a >= 268435456 THEN 32
    ELSE IF a >= 134217728 THEN 16
    ELSE IF a >= 67108864 THEN 8
    ELSE IF a >= 33554432 THEN 4
    ELSE IF a >= 16777216 THEN 2
    ELSE 1

RoundMagnitude(a) ==
    LET q == Ulp(a)
        r == a % q
        d == a - r
    IN  IF 2 * r < q THEN d
        ELSE IF 2 * r > q THEN d + q
        ELSE IF (d \div q) % 2 = 0 THEN d ELSE d + q

F32(n) == IF n >= 0 THEN RoundMagnitude(n) ELSE -RoundMagnitude(-n)

\* what the rodio Sink does on stop(), pause(), play(), set_volume(), append():
\* stop() drops the queued sources and leaves the paused flag alone, append()
\* queues a source behind the ones already there
SinkPlay_Noop(s) == s

SinkStop(s)         == [s EXCEPT !.queue = <<>>]
SinkPause(s)        == [s EXCEPT !.paused = TRUE]
SinkPlay(s)         == [s EXCEPT !.paused = FALSE]
SinkSetVolume(s, v) == [s EXCEPT !.volume = v]
SinkAppend(s, src)  == [s EXCEPT !.queue = Append(@, src)]

\* the selection cursor points at an existing station
ValidSelection == selected # None /\ selected < stations

\* the last playback commands, as far as they are plays and hard stops: "PSP" is
\* play, stop, play; "SS" is two stops in a row; any other command starts afresh
ConvAfter(c) ==
    CASE c = "play" /\ conv = "PS"            -> "PSP"
      [] c = "play" /\ conv \in {"S", "SS"}   -> "SP"
      [] c = "play" /\ conv \in {"SP", "PSP"} -> "SPP"
      [] c = "play"                            -> "P"
      [] c = "stop" /\ conv \in {"P", "SP", "PSP", "SPP"} -> "PS"
      [] c = "stop" /\ conv \in {"S", "PS", "SS"}         -> "SS"
      [] c = "stop"                            -> "S"
      [] OTHER -> "none"

\* the run  play (pause resume)* stop  from the start of the session; "resumed" is
\* Playing after at least one pause and resume, "off" a run of plays, pauses and
\* stops of another shape, "other" a run with any other playback command in it
SeqAfter(c) ==
    CASE seq = "other" \/ c \notin {"play", "pause", "stop"} -> "other"
      [] c = "play"  /\ seq = "start"                 -> "playing"
      [] c = "pause" /\ seq \in {"playing", "resumed"} -> "paused"
      [] c = "pause" /\ seq = "paused"                -> "resumed"
      [] c = "stop"  /\ seq = "playing"               -> "stopped"
      [] c = "stop"  /\ seq = "resumed"               -> "stopped_resumed"
      [] OTHER -> "off"

InitSession ==
    /\ loading = TRUE
    /\ stations = 0
    /\ selected = 0
    /\ active_station = None
    /\ playback_state = "Stopped"
    /\ volume = VolumeInit
    /\ sink = [queue |-> <<>>, paused |-> FALSE, volume |-> VolumeInit]
    /\ tasks = {}
    /\ panicked = FALSE

\* the variables that only the other specifications change
InitTracker ==
    /\ station_loading = FALSE
    /\ playback_start_time_for_underrun = None
    /\ last_restart_time = None
    /\ restart_attempts = 0
    /\ required_backoff = 0
    /\ position = 0
    /\ last_position = 0
    /\ underrun_detected = FALSE
    /\ underruns = 0
    /\ tick_due = FALSE

InitConnectLog ==
    /\ connects = <<>>
    /\ log_chan = <<>>
    /\ history = <<>>
    /\ poisoned = FALSE

InitFmt ==
    /\ duration = 0
    /\ formatted = <<>>

InitHostLoop ==
    /\ should_quit = FALSE
    /\ host = "loop"

InitSinkLock ==
    /\ holder = "free"
    /\ loop_at = "idle"
    /\ locker = 0

InitControl ==
    /\ datagram = <<>>
    /\ cmd_queue = <<>>
    /\ listening = TRUE
    /\ received = 0

InitExtra ==
    /\ InitFmt
    /\ InitHostLoop
    /\ InitSinkLock
    /\ InitControl
    /\ sent = [p \in {1, 2} |-> 0]

InitAux ==
    /\ arg = 0
    /\ InitTracker
    /\ InitConnectLog
    /\ InitExtra

\* the clock and the record of the run at the start
InitHistory ==
    /\ now = 0
    /\ plays = 0
    /\ outcome = "none"
    /\ op = "init"
    /\ conv = "none"
    /\ seq = "start"
    /\ bindingPlayed = 0

InitTiming ==
    /\ playback_start_time = None
    /\ total_played = 0
    /\ last_pause_time = None

Init ==
    /\ InitSession
    /\ InitTiming
    /\ now = 0
    /\ plays = 0
    /\ outcome = "none"
    /\ op = "init"
    /\ conv = "none"
    /\ seq = "start"
    /\ bindingPlayed = 0
    /\ InitAux

\* ---- the clock ----
Tick ==
    \E d \in 1..MaxDelta :
        /\ now + d <= MaxTime
        /\ now' = now + d
        /\ bindingPlayed' = IF playback_state = "Playing" THEN bindingPlayed + d ELSE bindingPlayed
        /\ op' = "tick"
        /\ UNCHANGED <<loading, stations, selected, session, volume, sink, tasks, plays,
                       outcome, panicked, conv, seq>>

\* ---- the station fetch, delivered once to the tick loop ----
StationsLoaded ==
    /\ loading
    /\ stations' = NumStations
    /\ loading' = FALSE
    /\ op' = "loaded"
    /\ UNCHANGED <<now, selected, session, volume, sink, tasks, plays, outcome, panicked,
                   conv, seq, bindingPlayed>>

StationsFailed_StillLoading ==
    /\ loading
    /\ loading' = loading
    /\ op' = "load_failed"
    /\ UNCHANGED <<now, stations, selected, session, volume, sink, tasks, plays, outcome,
                   panicked, conv, seq, bindingPlayed>>

StationsFailed ==
    /\ loading
    /\ loading' = FALSE
    /\ op' = "load_failed"
    /\ UNCHANGED <<now, stations, selected, session, volume, sink, tasks, plays, outcome,
                   panicked, conv, seq, bindingPlayed>>

\* ---- handle_play: the part under `if let Some(original_sink)` ----
StartPlayback_ResumeOnly ==
    /\ active_station' = IF playback_state = "Stopped" /\ active_station # None
                         THEN active_station ELSE selected
    /\ playback_start_time' = now
    /\ total_played' = IF last_pause_time # None
                       THEN total_played + DurationSince(last_pause_time, now)
                       ELSE total_played
    /\ last_pause_time' = None
    /\ sink' = SinkStop(sink)
    /\ tasks' = tasks \cup {[id |-> plays + 1, station |-> selected, volume |-> volume]}
    /\ plays' = plays + 1
    /\ playback_state' = "Playing"
    /\ outcome' = "pending"
    /\ bindingPlayed' = 0

StartPlayback ==
    /\ active_station' = selected
    /\ playback_start_time' = now
    /\ total_played' = IF last_pause_time # None
                       THEN total_played + DurationSince(last_pause_time, now)
                       ELSE total_played
    /\ last_pause_time' = None
    /\ sink' = SinkStop(sink)
    /\ tasks' = tasks \cup {[id |-> plays + 1, station |-> selected, volume |-> volume]}
    /\ plays' = plays + 1
    /\ playback_state' = "Playing"
    /\ outcome' = "pending"
    /\ bindingPlayed' = 0

HandlePlay_AnyCursor ==
    /\ plays < MaxPlays
    /\ op' = "play"
    /\ StartPlayback
    /\ conv' = ConvAfter("play")
    /\ seq' = SeqAfter("play")
    /\ UNCHANGED <<now, loading, stations, selected, volume, panicked>>

HandlePlay ==
    /\ plays < MaxPlays
    /\ op' = "play"
    /\ IF ValidSelection
       THEN /\ StartPlayback
            /\ conv' = ConvAfter("play")
            /\ seq' = SeqAfter("play")
       ELSE /\ conv' = ConvAfter("play_noop")
            /\ seq' = SeqAfter("play_noop")
            /\ UNCHANGED <<session, sink, tasks, plays, outcome, bindingPlayed>>
    /\ UNCHANGED <<now, loading, stations, selected, volume, panicked>>

\* ---- the connect task spawned by handle_play ----
\* the task owns a clone of the Arc of the one Sink and the volume read at the
\* time of the play; it touches no field of App
ConnectOk ==
    \E t \in tasks :
        /\ sink' = SinkPlay(SinkSetVolume(SinkAppend(sink, t.id), t.volume))
        /\ tasks' = tasks \ {t}
        /\ outcome' = IF t.id = plays THEN "ok" ELSE outcome
        /\ op' = "connect_ok"
        /\ UNCHANGED <<now, loading, stations, selected, session, volume, plays,
                       panicked, conv, seq, bindingPlayed>>

ConnectFail_StopsSession ==
    \E t \in tasks :
        /\ tasks' = tasks \ {t}
        /\ outcome' = IF t.id = plays THEN "failed" ELSE outcome
        /\ op' = "connect_fail"
        /\ playback_state' = "Stopped"
        /\ UNCHANGED <<now, loading, stations, selected, active_station, playback_start_time,
                       total_played, last_pause_time, volume, sink, plays,
                       panicked, conv, seq, bindingPlayed>>

ConnectFail ==
    \E t \in tasks :
        /\ tasks' = tasks \ {t}
        /\ outcome' = IF t.id = plays THEN "failed" ELSE outcome
        /\ op' = "connect_fail"
        /\ UNCHANGED <<now, loading, stations, selected, session, volume, sink, plays,
                       panicked, conv, seq, bindingPlayed>>

\* ---- handle_stop ----
\* if let Some(start) = app.playback_start_time.take() { app.total_played += start.elapsed() }
FoldOnStop_Skip(total, start) == total

FoldOnStop_Twice(total, start) ==
    IF start # None THEN total + 2 * Elapsed(start) ELSE total

FoldOnStop(total, start) ==
    IF start # None THEN total + Elapsed(start) ELSE total

\* sink.empty() only asks whether the queue is empty; sink.stop() clears it
StopPlaying ==
    /\ sink' = SinkStop(sink)
    /\ playback_state' = "Stopped"
    /\ total_played' = FoldOnStop(total_played, playback_start_time)
    /\ playback_start_time' = None
    /\ last_pause_time' = now

StopStopped_AlwaysResume(soft_stop) ==
    /\ sink' = SinkPlay(sink)
    /\ playback_state' = "Playing"
    /\ playback_start_time' = now
    /\ UNCHANGED <<total_played, last_pause_time>>

StopStopped(soft_stop) ==
    IF soft_stop
    THEN /\ sink' = SinkPlay(sink)
         /\ playback_state' = "Playing"
         /\ playback_start_time' = now
         /\ UNCHANGED <<total_played, last_pause_time>>
    ELSE UNCHANGED <<sink, playback_state, timing>>

StopPaused == UNCHANGED <<sink, playback_state, timing>>

HandleStop(soft_stop) ==
    /\ op' = IF soft_stop THEN "soft_stop" ELSE "stop"
    /\ conv' = ConvAfter(IF soft_stop THEN "soft_stop" ELSE "stop")
    /\ seq' = SeqAfter(IF soft_stop THEN "soft_stop" ELSE "stop")
    /\ CASE playback_state = "Playing" -> StopPlaying
         [] playback_state = "Stopped" -> StopStopped(soft_stop)
         [] playback_state = "Paused"  -> StopPaused
    /\ UNCHANGED <<now, loading, stations, selected, active_station, volume, tasks, plays,
                   outcome, panicked, bindingPlayed>>

\* ---- handle_pause ----
\* if let Some(start) = app.playback_start_time.take() { app.total_played += start.elapsed() }
FoldOnPause_Assign(total, start) ==
    IF start # None THEN Elapsed(start) ELSE total

FoldOnPause(total, start) ==
    IF start # None THEN total + Elapsed(start) ELSE total

PausePlaying ==
    /\ sink' = SinkPause(sink)
    /\ playback_state' = "Paused"
    /\ total_played' = FoldOnPause(total_played, playback_start_time)
    /\ playback_start_time' = None
    /\ last_pause_time' = now

PausePaused ==
    /\ sink' = SinkPlay(sink)
    /\ playback_state' = "Playing"
    /\ playback_start_time' = now
    /\ UNCHANGED <<total_played, last_pause_time>>

PauseStopped_Resume ==
    /\ sink' = SinkPlay(sink)
    /\ playback_state' = "Playing"
    /\ playback_start_time' = now
    /\ UNCHANGED <<total_played, last_pause_time>>

PauseStopped == UNCHANGED <<sink, playback_state, timing>>

HandlePause ==
    /\ op' = "pause"
    /\ conv' = ConvAfter("pause")
    /\ seq' = SeqAfter("pause")
    /\ CASE playback_state = "Playing" -> PausePlaying
         [] playback_state = "Paused"  -> PausePaused
         [] playback_state = "Stopped" -> PauseStopped
    /\ UNCHANGED <<now, loading, stations, selected, active_station, volume, tasks, plays,
                   outcome, panicked, bindingPlayed>>

\* ---- handle_up / handle_down ----
HandleUp ==
    /\ op' = "up"
    /\ selected' = IF selected # None
                   THEN (IF selected > 0 THEN selected - 1 ELSE selected)
                   ELSE (IF stations # 0 THEN 0 ELSE selected)
    /\ UNCHANGED <<now, loading, stations, session, volume, sink, tasks, plays, outcome,
                   panicked, conv, seq, bindingPlayed>>

HandleDown ==
    /\ op' = "down"
    /\ IF loading
       THEN UNCHANGED <<selected, panicked>>
       ELSE IF selected # None
            THEN IF stations = 0
                 THEN \* stations.len() - 1 underflows: a panic where overflow checks are
                      \* compiled in, usize::MAX (and so a step down) where they are not
                      \/ /\ panicked' = TRUE
                         /\ UNCHANGED selected
                      \/ /\ selected < MaxSelected
                         /\ selected' = selected + 1
                         /\ UNCHANGED panicked
                 ELSE /\ selected' = IF selected < stations - 1 THEN selected + 1 ELSE selected
                      /\ UNCHANGED panicked
            ELSE /\ selected' = IF stations # 0 THEN 0 ELSE selected
                 /\ UNCHANGED panicked
    /\ UNCHANGED <<now, loading, stations, session, volume, sink, tasks, plays, outcome,
                   conv, seq, bindingPlayed>>

\* ---- handle_volume_up / handle_volume_down ----
HandleVolumeUp ==
    /\ op' = "volume_up"
    /\ IF volume < VolumeMax
       THEN /\ volume' = F32(volume + Tenth)
            /\ sink' = SinkSetVolume(sink, F32(volume + Tenth))
       ELSE UNCHANGED <<volume, sink>>
    /\ UNCHANGED <<now, loading, stations, selected, session, tasks, plays, outcome, panicked,
                   conv, seq, bindingPlayed>>

HandleVolumeDown ==
    /\ op' = "volume_down"
    /\ IF volume > VolumeMin
       THEN /\ volume' = F32(volume - Tenth)
            /\ sink' = SinkSetVolume(sink, F32(volume - Tenth))
       ELSE UNCHANGED <<volume, sink>>
    /\ UNCHANGED <<now, loading, stations, selected, session, tasks, plays, outcome, panicked,
                   conv, seq, bindingPlayed>>

\* ---- restart_playback ----
\* the underrun monitor, the only caller, runs while the state is Playing
MonitorActive_Always == TRUE

MonitorActive == playback_state = "Playing"

RestartPlayback_KeepStation ==
    /\ MonitorActive
    /\ plays < MaxPlays
    /\ op' = "restart"
    /\ conv' = ConvAfter("restart")
    /\ seq' = SeqAfter("restart")
    /\ sink' = SinkStop(sink)
    /\ playback_state' = IF ValidSelection THEN "Playing" ELSE "Stopped"
    /\ tasks' = IF ValidSelection
                THEN tasks \cup {[id |-> plays + 1, station |-> active_station,
                                  volume |-> volume]}
                ELSE tasks
    /\ plays' = IF ValidSelection THEN plays + 1 ELSE plays
    /\ outcome' = IF ValidSelection THEN "pending" ELSE outcome
    /\ UNCHANGED <<active_station, timing, bindingPlayed>>
    /\ UNCHANGED <<now, loading, stations, selected, volume, panicked>>

RestartPlayback_AnyCursor ==
    /\ MonitorActive
    /\ plays < MaxPlays
    /\ op' = "restart"
    /\ conv' = ConvAfter("restart")
    /\ seq' = SeqAfter("restart")
    /\ StartPlayback
    /\ UNCHANGED <<now, loading, stations, selected, volume, panicked>>

\* sink.stop(), state Stopped, then handle_play when the cursor is on a station;
\* handle_play overwrites what the first half set
RestartPlayback ==
    /\ MonitorActive
    /\ plays < MaxPlays
    /\ op' = "restart"
    /\ conv' = ConvAfter("restart")
    /\ seq' = SeqAfter("restart")
    /\ IF ValidSelection
       THEN StartPlayback
       ELSE /\ sink' = SinkStop(sink)
            /\ playback_state' = "Stopped"
            /\ UNCHANGED <<active_station, timing, tasks, plays, outcome, bindingPlayed>>
    /\ UNCHANGED <<now, loading, stations, selected, volume, panicked>>

TickLoopStep ==
    /\ ~panicked
    /\ UNCHANGED aux
    /\ \/ Tick
       \/ StationsLoaded
       \/ StationsFailed
       \/ HandlePlay
       \/ HandleStop(FALSE)
       \/ HandleStop(TRUE)
       \/ HandlePause
       \/ HandleUp
       \/ HandleDown
       \/ RestartPlayback

\* fewer than MaxVolumeDrift steps of 0.1 away from VolumeInit
WithinDrift ==
    /\ 2 * (volume - VolumeInit) < (2 * MaxVolumeDrift - 1) * Tenth
    /\ 2 * (VolumeInit - volume) < (2 * MaxVolumeDrift - 1) * Tenth

VolumeStep ==
    /\ ~panicked
    /\ WithinDrift
    /\ UNCHANGED aux
    /\ \/ HandleVolumeUp
       \/ HandleVolumeDown

ConnectStep ==
    /\ UNCHANGED aux
    /\ \/ ConnectOk
       \/ ConnectFail

\* the playback session without the volume keys
Next ==
    \/ TickLoopStep
    \/ ConnectStep

Spec == Init /\ [][Next]_vars

\* the playback session with every key
NextAll ==
    \/ TickLoopStep
    \/ VolumeStep
    \/ ConnectStep

SpecAll == Init /\ [][NextAll]_vars

\* ---- the volume commands on their own ----
\* volumes a configuration file may hold: 1.0 (the default), 1.95, 0.25
ConfigVolumes == {VolumeInit, 261724576, 33554432}

\* arguments of SetVolume: -1.0, 0.0, 0.5, 2.0, 3.0
SetVolumeInputs == {-134217728, 0, 67108864, 268435456, 402653184}

Clamp_NoUpper(v) == IF v < VolumeMin THEN VolumeMin ELSE v

\* v.clamp(0.0, 2.0)
Clamp(v) == IF v < VolumeMin THEN VolumeMin ELSE IF v > VolumeMax THEN VolumeMax ELSE v

\* set_volume(v): clamp, apply to the sink, store
SetVolume(v) ==
    /\ op' = "set_volume"
    /\ arg' = v
    /\ volume' = Clamp(v)
    /\ sink' = SinkSetVolume(sink, Clamp(v))
    /\ UNCHANGED <<now, loading, stations, selected, session, tasks, plays, outcome, panicked,
                   conv, seq, bindingPlayed, tracker, connectLog, extra>>

InitVolume ==
    /\ InitTiming
    /\ InitAux
    /\ loading = TRUE
    /\ stations = 0
    /\ selected = 0
    /\ active_station = None
    /\ playback_state = "Stopped"
    /\ volume \in ConfigVolumes
    /\ sink = [queue |-> <<>>, paused |-> FALSE, volume |-> VolumeInit]
    /\ tasks = {}
    /\ panicked = FALSE
    /\ InitHistory

\* the volume keys, in this specification pressed before the first play
VolumeKey ==
    /\ plays = 0
    /\ UNCHANGED aux
    /\ \/ HandleVolumeUp
       \/ HandleVolumeDown

\* the plays that pick the stored volume up
VolumePlay ==
    /\ UNCHANGED aux
    /\ \/ StationsLoaded
       \/ HandlePlay
       \/ ConnectOk

NextVolume ==
    \/ VolumeKey
    \/ VolumePlay
    \/ \E v \in SetVolumeInputs : SetVolume(v)

SpecVolume == InitVolume /\ [][NextVolume]_vars

\* ---- the connect task, step by step of what can fail ----
\* what the environment lets fail in one connect attempt: building the client,
\* parsing the URL, the HTTP connect, a response without a bit rate, the
\* prefetch, the join of the blocking decoder task, the decoder
Faults == {"none", "client", "url", "http", "bitrate", "prefetch", "join", "decode"}

Entry(id, type) == [task |-> id, type |-> type]

\* a `?` hands the error to the JoinHandle as Ok(Err(e))
ReturnsErr(fault) == fault \in {"client", "url", "http", "join"}

\* bitrate().unwrap(), decoder.unwrap() and, on a poisoned lock, sink.lock().unwrap()
Panics(fault) == fault \in {"bitrate", "decode"} \/ (fault = "none" /\ poisoned)

\* the HistoryMessages the task sends before it returns or panics
Sent(id, fault) ==
    <<Entry(id, "System")>> \o
    CASE fault \in {"client", "url", "http", "bitrate"} -> <<>>
      [] fault = "prefetch" -> <<Entry(id, "Error"), Entry(id, "System"),
                                 Entry(id, "Error"), Entry(id, "Error")>>
      [] fault \in {"join", "decode"} -> <<Entry(id, "Background"), Entry(id, "System")>>
      [] fault = "none" /\ poisoned -> <<Entry(id, "Background"), Entry(id, "System")>>
      [] OTHER -> <<Entry(id, "Background"), Entry(id, "System"), Entry(id, "System")>>

ResultOf(fault) ==
    IF Panics(fault) THEN "panicked"
    ELSE IF ReturnsErr(fault) THEN "err"
    ELSE IF fault = "prefetch" THEN "unbound"
    ELSE "bound"

\* handle_play with the record of the task it spawns
ConnectPlay ==
    /\ ~poisoned
    /\ HandlePlay
    /\ connects' = IF ValidSelection
                   THEN Append(connects, [fault |-> "none", result |-> "running",
                                          watched |-> FALSE])
                   ELSE connects
    /\ UNCHANGED <<arg, extra, tracker, log_chan, history, poisoned>>

\* the task runs to its return or its panic
ConnectRun(t, fault) ==
    /\ t \in tasks
    /\ connects[t.id].result = "running"
    /\ IF ResultOf(fault) = "bound"
       THEN /\ ConnectOk
            /\ tasks' = tasks \ {t}
       ELSE /\ ConnectFail
            /\ tasks' = tasks \ {t}
    /\ connects' = [connects EXCEPT ![t.id].fault = fault, ![t.id].result = ResultOf(fault)]
    /\ log_chan' = log_chan \o Sent(t.id, fault)
    /\ poisoned' = (poisoned \/ (fault = "decode"))
    /\ UNCHANGED <<arg, extra, tracker, history>>

\* the task that awaits the JoinHandle: only a JoinError, a panic, is an Err
Watcher(i) ==
    /\ i \in 1..Len(connects)
    /\ connects[i].result \notin {"running"}
    /\ ~connects[i].watched
    /\ connects' = [connects EXCEPT ![i].watched = TRUE]
    /\ log_chan' = log_chan \o
                    (IF connects[i].result = "panicked"
                     THEN <<Entry(i, "Error")>>
                     ELSE <<Entry(i, "System"), Entry(i, "System")>>)
    /\ op' = "watcher"
    /\ UNCHANGED <<now, loading, stations, selected, session, volume, sink, tasks, plays,
                   outcome, panicked, conv, seq, bindingPlayed, arg, extra, tracker, history,
                   poisoned>>

DrainLog_NewestFirst ==
    /\ log_chan # <<>>
    /\ history' = history \o [k \in 1..Len(log_chan) |-> log_chan[Len(log_chan) + 1 - k]]
    /\ log_chan' = <<>>
    /\ op' = "drain"
    /\ UNCHANGED <<now, loading, stations, selected, session, volume, sink, tasks, plays,
                   outcome, panicked, conv, seq, bindingPlayed, arg, extra, tracker, connects,
                   poisoned>>

\* while let Ok(msg) = log_rx.try_recv() { app.history.push(msg) }
DrainLog ==
    /\ log_chan # <<>>
    /\ history' = history \o log_chan
    /\ log_chan' = <<>>
    /\ op' = "drain"
    /\ UNCHANGED <<now, loading, stations, selected, session, volume, sink, tasks, plays,
                   outcome, panicked, conv, seq, bindingPlayed, arg, extra, tracker, connects,
                   poisoned>>

ConnectKeys ==
    /\ UNCHANGED aux
    /\ \/ StationsLoaded
       \/ HandleDown

\* the producer of the station fetch has the number 0
FetchTask == 0

\* Err(e) from the fetch: the loop itself pushes the Error entry
FetchFailed ==
    /\ StationsFailed
    /\ history' = Append(history, Entry(FetchTask, "Error"))
    /\ UNCHANGED <<arg, extra, tracker, connects, log_chan, poisoned>>

NextConnect ==
    \/ ConnectKeys
    \/ FetchFailed
    \/ ConnectPlay
    \/ \E t \in tasks, fault \in Faults : ConnectRun(t, fault)
    \/ \E i \in 1..MaxPlays : Watcher(i)
    \/ DrainLog

SpecConnect == Init /\ [][NextConnect]_vars

\* ---- the host loop: quit and cleanup ----
\* KeyCode::Char('q') and the Quit button: app.should_quit = true
Quit ==
    /\ host = "loop"
    /\ ~should_quit
    /\ should_quit' = TRUE
    /\ op' = "quit"
    /\ UNCHANGED <<now, loading, stations, selected, session, volume, sink, tasks, plays,
                   outcome, panicked, conv, seq, bindingPlayed, arg, tracker, connectLog,
                   fmt, sinkLock, control, sent, host>>

\* if app.should_quit { break } and then sink.lock().unwrap().stop(): the
\* unwrap panics on a poisoned lock
Cleanup ==
    /\ host = "loop"
    /\ should_quit
    /\ IF poisoned
       THEN /\ host' = "panicked"
            /\ sink' = sink
       ELSE /\ host' = "exited"
            /\ sink' = SinkStop(sink)
    /\ op' = "cleanup"
    /\ UNCHANGED <<now, loading, stations, selected, session, volume, tasks, plays,
                   outcome, panicked, conv, seq, bindingPlayed, arg, tracker, connectLog,
                   fmt, sinkLock, control, sent, should_quit>>

\* one iteration of the loop before the quit flag is set: the station result,
\* the log drain, a key
LoopStep ==
    /\ host = "loop"
    /\ ~should_quit
    /\ \/ ConnectKeys
       \/ FetchFailed
       \/ ConnectPlay
       \/ DrainLog

\* the spawned tasks run as long as main has not returned
TaskStep ==
    /\ host = "loop"
    /\ \/ \E t \in tasks, fault \in Faults : ConnectRun(t, fault)
       \/ \E i \in 1..MaxPlays : Watcher(i)

NextQuit ==
    \/ LoopStep
    \/ TaskStep
    \/ Quit
    \/ Cleanup

SpecQuit == Init /\ [][NextQuit]_vars

\* ---- the Mutex of the Sink ----
\* the handlers of the tick loop that take the lock
LockedHandlers == {"play", "stop", "pause"}

\* steps of the tick loop that do not touch the sink
LoopFree ==
    /\ holder # "loop"
    /\ \/ ConnectKeys
       \/ DrainLog

\* sink.lock() in a handler; lock() blocks the thread while a task holds the lock
LoopLock(h) ==
    /\ holder = "free"
    /\ h = "play" => plays < MaxPlays /\ ~poisoned
    /\ holder' = "loop"
    /\ loop_at' = h
    /\ op' = "lock"
    /\ UNCHANGED <<now, loading, stations, selected, session, volume, sink, tasks, plays,
                   outcome, panicked, conv, seq, bindingPlayed, arg, tracker, connectLog,
                   fmt, hostLoop, control, sent, locker>>

\* the body under `if let Ok(sink) = sink.lock()` and the drop of the guard at
\* its end: no await in between; on a poisoned lock the body is skipped
LoopUnlock ==
    /\ holder = "loop"
    /\ holder' = "free"
    /\ loop_at' = "idle"
    /\ UNCHANGED <<arg, tracker, log_chan, history, poisoned, fmt, hostLoop, control, sent, locker>>
    /\ IF loop_at = "play"
       THEN /\ HandlePlay
            /\ connects' = IF ValidSelection
                           THEN Append(connects, [fault |-> "none", result |-> "running",
                                                  watched |-> FALSE])
                           ELSE connects
       ELSE /\ connects' = connects
            /\ IF poisoned
               THEN /\ op' = "skipped"
                    /\ UNCHANGED <<now, loading, stations, selected, session, volume, sink,
                                   tasks, plays, outcome, panicked, conv, seq, bindingPlayed>>
               ELSE IF loop_at = "stop" THEN HandleStop(FALSE) ELSE HandlePause

\* sink.lock() in the connect task, after its last await
TaskLock(t) ==
    /\ t \in tasks
    /\ connects[t.id].result = "running"
    /\ holder = "free"
    /\ holder' = "task"
    /\ locker' = t.id
    /\ op' = "lock"
    /\ UNCHANGED <<now, loading, stations, selected, session, volume, sink, tasks, plays,
                   outcome, panicked, conv, seq, bindingPlayed, arg, tracker, connectLog,
                   fmt, hostLoop, control, sent, loop_at>>

\* the task runs to its end: through the block that appends the decoder under
\* the lock, or to an error before it
TaskRun(t, fault) ==
    /\ fault \in {"none", "decode"} <=> (holder = "task" /\ locker = t.id)
    /\ ConnectRun(t, fault)

TaskDrop_AfterLogDrained ==
    /\ holder = "task"
    /\ connects[locker].result # "running"
    /\ log_chan = <<>>
    /\ holder' = "free"
    /\ locker' = 0
    /\ op' = "unlock"
    /\ UNCHANGED <<now, loading, stations, selected, session, volume, sink, tasks, plays,
                   outcome, panicked, conv, seq, bindingPlayed, arg, tracker, connectLog,
                   fmt, hostLoop, control, sent, loop_at>>

\* the guard goes out of scope at the end of the block, or in the unwinding
\* of the panic
TaskDrop ==
    /\ holder = "task"
    /\ connects[locker].result # "running"
    /\ holder' = "free"
    /\ locker' = 0
    /\ op' = "unlock"
    /\ UNCHANGED <<now, loading, stations, selected, session, volume, sink, tasks, plays,
                   outcome, panicked, conv, seq, bindingPlayed, arg, tracker, connectLog,
                   fmt, hostLoop, control, sent, loop_at>>

\* the steps of the holder of the lock up to its release
HolderStep ==
    \/ LoopUnlock
    \/ \E t \in tasks : TaskRun(t, "none")
    \/ TaskDrop

NextLock ==
    \/ LoopFree
    \/ \E h \in LockedHandlers : LoopLock(h)
    \/ LoopUnlock
    \/ \E t \in tasks : TaskLock(t)
    \/ \E t \in tasks, fault \in Faults : TaskRun(t, fault)
    \/ TaskDrop

SpecLock == Init /\ [][NextLock]_vars

\* ---- the network control channel ----
\* the words a datagram is made of: the words of the command language, two
\* numbers and a word that is none of them
Tokens == {"play", "stop", "toggle", "volume", "tune", "select", "up", "down", "next", "prev",
           "0.5", "7", "bogus"}

\* the datagrams: every sequence of at most MaxTokens words, the empty one too
Datagrams == UNION {[1..n -> Tokens] : n \in 0..MaxTokens}

Command(c, v) == [cmd |-> c, value |-> v]

\* what a datagram that is no command parses to
NoCommand == Command("none", 0)

\* a word that reads as a number: 0.5 and 7.0 as volumes, 7 as a station id
TokenValue(tok) ==
    CASE tok = "0.5" -> 67108864
      [] tok = "7"   -> 939524096
      [] OTHER       -> None

Parse_FirstWord(d) ==
    IF d = <<>> THEN NoCommand
    ELSE CASE d[1] = "play"   -> Command("Play", 0)
           [] d[1] = "stop"   -> Command("Stop", 0)
           [] d[1] = "toggle" -> Command("Toggle", 0)
           [] d[1] = "volume" -> Command("VolumeUp", 0)
           [] d[1] = "select" -> Command("SelectDown", 0)
           [] d[1] = "tune"   -> Command("TuneNext", 0)
           [] OTHER           -> NoCommand

\* the command a datagram stands for, word by word
Parse(d) ==
    IF Len(d) = 1
    THEN CASE d[1] = "play"   -> Command("Play", 0)
           [] d[1] = "stop"   -> Command("Stop", 0)
           [] d[1] = "toggle" -> Command("Toggle", 0)
           [] OTHER           -> NoCommand
    ELSE IF Len(d) = 2
    THEN CASE d[1] = "volume" ->
                (CASE d[2] = "up"   -> Command("VolumeUp", 0)
                   [] d[2] = "down" -> Command("VolumeDown", 0)
                   [] TokenValue(d[2]) # None -> Command("SetVolume", TokenValue(d[2]))
                   [] OTHER -> NoCommand)
           [] d[1] = "tune" ->
                (CASE d[2] = "next" -> Command("TuneNext", 0)
                   [] d[2] = "prev" -> Command("TunePrev", 0)
                   [] d[2] = "7"    -> Command("Tune", 7)
                   [] OTHER -> NoCommand)
           [] d[1] = "select" ->
                (CASE d[2] = "up"   -> Command("SelectUp", 0)
                   [] d[2] = "down" -> Command("SelectDown", 0)
                   [] OTHER -> NoCommand)
           [] OTHER -> NoCommand
    ELSE NoCommand

\* the commands whose handlers are part of this model; datagrams for the
\* others (tune, toggle) are not sent
Handled == {"Play", "Stop", "VolumeUp", "VolumeDown", "SetVolume", "SelectUp", "SelectDown"}

\* the listener takes one datagram: a command goes to the command queue, any
\* other datagram is dropped with a diagnostic and the listener goes on
Receive(d) ==
    /\ listening
    /\ received < MaxDatagrams
    /\ Parse(d) = NoCommand \/ (Parse(d).cmd \in Handled /\ Len(cmd_queue) < MaxQueue)
    /\ datagram' = d
    /\ received' = received + 1
    /\ cmd_queue' = IF Parse(d) = NoCommand THEN cmd_queue ELSE Append(cmd_queue, Parse(d))
    /\ listening' = TRUE
    /\ op' = "datagram"
    /\ UNCHANGED <<now, loading, stations, selected, session, volume, sink, tasks, plays,
                   outcome, panicked, conv, seq, bindingPlayed, arg, tracker, connectLog,
                   fmt, hostLoop, sinkLock, sent>>

\* the tick loop takes the next command off the queue and applies it
ApplyCommand ==
    /\ cmd_queue # <<>>
    /\ cmd_queue' = Tail(cmd_queue)
    /\ UNCHANGED <<arg, tracker, connectLog, fmt, hostLoop, sinkLock, sent, datagram,
                   listening, received>>
    /\ LET c == Head(cmd_queue)
       IN  CASE c.cmd = "Play"       -> HandlePlay
             [] c.cmd = "Stop"       -> HandleStop(FALSE)
             [] c.cmd = "VolumeUp"   -> HandleVolumeUp
             [] c.cmd = "VolumeDown" -> HandleVolumeDown
             [] c.cmd = "SelectUp"   -> HandleUp
             [] c.cmd = "SelectDown" -> HandleDown
             [] c.cmd = "SetVolume"  ->
                  /\ op' = "set_volume"
                  /\ volume' = Clamp(c.value)
                  /\ sink' = SinkSetVolume(sink, Clamp(c.value))
                  /\ UNCHANGED <<now, loading, stations, selected, session, tasks, plays,
                                 outcome, panicked, conv, seq, bindingPlayed>>

\* the station list arrives
ControlLoaded ==
    /\ StationsLoaded
    /\ UNCHANGED aux

NextControl ==
    \/ ControlLoaded
    \/ ConnectStep
    \/ \E d \in Datagrams : Receive(d)
    \/ ApplyCommand

SpecControl == Init /\ [][NextControl]_vars

\* ---- the bounded log channel ----
\* the tasks that send on the log channel: the task that forwards the stream
\* titles (1), one message per title, and the watcher of the connect task (2)
Producers == {1, 2}

\* how many messages a producer sends in a run
Quota(p) == IF p = 1 THEN MaxBurst ELSE 2

\* the k-th message of a producer
LogMsg(p, k) == [task |-> p, type |-> IF p = 1 THEN "Playback" ELSE "System", n |-> k]

LogSend_DropsWhenFull(p) ==
    /\ sent[p] < Quota(p)
    /\ log_chan' = IF Len(log_chan) < LogCapacity
                   THEN Append(log_chan, LogMsg(p, sent[p] + 1))
                   ELSE log_chan
    /\ sent' = [sent EXCEPT ![p] = @ + 1]
    /\ op' = "send"
    /\ UNCHANGED <<now, loading, stations, selected, session, volume, sink, tasks, plays,
                   outcome, panicked, conv, seq, bindingPlayed, arg, tracker, connects, history,
                   poisoned, fmt, hostLoop, sinkLock, control>>

\* log_tx.send(msg).await: the send completes when the channel has room and
\* waits as long as it is full
LogSend(p) ==
    /\ sent[p] < Quota(p)
    /\ Len(log_chan) < LogCapacity
    /\ log_chan' = Append(log_chan, LogMsg(p, sent[p] + 1))
    /\ sent' = [sent EXCEPT ![p] = @ + 1]
    /\ op' = "send"
    /\ UNCHANGED <<now, loading, stations, selected, session, volume, sink, tasks, plays,
                   outcome, panicked, conv, seq, bindingPlayed, arg, tracker, connects, history,
                   poisoned, fmt, hostLoop, sinkLock, control>>

NextLogChannel ==
    \/ \E p \in Producers : LogSend(p)
    \/ DrainLog

\* the tick loop keeps running, and the channel serves the waiting senders in turn
SpecLogChannel ==
    /\ Init
    /\ [][NextLogChannel]_vars
    /\ WF_vars(DrainLog)
    /\ \A p \in Producers : SF_vars(LogSend(p))

\* ---- the backoff of the underrun monitor ----
Min(a, b) == IF a <= b THEN a ELSE b

RECURSIVE Pow2(_)
Pow2(k) == IF k = 0 THEN 1 ELSE 2 * Pow2(k - 1)

RequiredBackoff_NoCap(k) == BackoffFloor * Pow2(k)

\* min(0.5 * 2^restart_attempts, 30.0)
RequiredBackoff(k) == Min(BackoffFloor * Pow2(k), BackoffCap)

PastBackoffPeriod_Always == TRUE

\* now - last_restart_time >= required_backoff, or true if never restarted
PastBackoffPeriod ==
    \/ last_restart_time = None
    \/ DurationSince(now, last_restart_time) >= RequiredBackoff(restart_attempts)

\* what the session, the sink and the sampling of the monitor keep in SpecBackoff
backoffFrame == <<loading, stations, selected, session, volume, sink, tasks, plays, outcome,
                  panicked, conv, seq, bindingPlayed, arg, extra, connectLog, station_loading,
                  playback_start_time_for_underrun, position, last_position, tick_due>>

BackoffTick ==
    /\ now < MaxBackoffTime
    /\ now' = now + 1
    /\ op' = "tick"
    /\ UNCHANGED <<backoffFrame, last_restart_time, restart_attempts, required_backoff,
                   underrun_detected, underruns>>

\* steps 4 to 6 of the monitor on a stream that stays stalled past its grace period
BackoffStep ==
    /\ op' = "monitor"
    /\ required_backoff' = RequiredBackoff(restart_attempts)
    /\ IF PastBackoffPeriod /\ restart_attempts < MaxAttempts
       THEN /\ underrun_detected' = TRUE
            /\ underruns' = underruns + 1
            /\ last_restart_time' = now
            /\ restart_attempts' = restart_attempts + 1
       ELSE /\ underrun_detected' = FALSE
            /\ UNCHANGED <<underruns, last_restart_time, restart_attempts>>
    /\ UNCHANGED <<now, backoffFrame>>

\* restarts in a row, no reconnect succeeding in between
NextBackoff ==
    \/ BackoffTick
    \/ BackoffStep

SpecBackoff == Init /\ [][NextBackoff]_vars

\* ---- the underrun monitor on the playback session ----
\* what the key commands and the connect tasks leave alone in the tracker
trackerRest == <<last_restart_time, restart_attempts, required_backoff, position,
                 last_position, underrun_detected, underruns, tick_due>>

\* one UI tick passes; a sink that plays a source may advance
MonitorClock ==
    /\ ~tick_due
    /\ now < MaxMonitorTime
    /\ now' = now + 1
    /\ tick_due' = TRUE
    /\ bindingPlayed' = IF playback_state = "Playing" THEN bindingPlayed + 1 ELSE bindingPlayed
    /\ \E advance \in BOOLEAN :
          position' = IF advance /\ sink.queue # <<>> /\ ~sink.paused /\ position < MaxPosition
                      THEN position + 1 ELSE position
    /\ op' = "tick"
    /\ UNCHANGED <<loading, stations, selected, session, volume, sink, tasks, plays, outcome,
                   panicked, conv, seq, arg, extra, connectLog, station_loading,
                   playback_start_time_for_underrun, last_restart_time, restart_attempts,
                   required_backoff, last_position, underrun_detected, underruns>>

\* the stream ends or breaks: the sink drops the source it was playing
SourceEnds ==
    /\ sink.queue # <<>>
    /\ sink' = [sink EXCEPT !.queue = <<>>]
    /\ op' = "source_ends"
    /\ UNCHANGED <<now, loading, stations, selected, session, volume, tasks, plays, outcome,
                   panicked, conv, seq, bindingPlayed, aux>>

\* a fresh connect: detection is suppressed and the grace period starts
ArmTracker ==
    /\ station_loading' = TRUE
    /\ playback_start_time_for_underrun' = now

\* the keys are pressed early in the run, the monitor watches to its end
KeyWindow == now <= MaxKeyTime

MonitorPlay ==
    /\ KeyWindow
    /\ HandlePlay
    /\ IF ValidSelection
       THEN ArmTracker
       ELSE UNCHANGED <<station_loading, playback_start_time_for_underrun>>
    /\ UNCHANGED <<arg, extra, connectLog, trackerRest>>

LoadingCleared_NoReset ==
    /\ ConnectOk
    /\ station_loading' = FALSE
    /\ UNCHANGED <<arg, extra, connectLog, playback_start_time_for_underrun, trackerRest>>

\* the stream is bound: the pipeline sends the loading-cleared signal
LoadingCleared ==
    /\ ConnectOk
    /\ station_loading' = FALSE
    /\ restart_attempts' = 0
    /\ UNCHANGED <<arg, extra, connectLog, playback_start_time_for_underrun, last_restart_time, required_backoff,
                   position, last_position, underrun_detected, underruns, tick_due>>

\* step 2 of the monitor
PotentialUnderrun ==
    \/ sink.queue = <<>>
    \/ Len(sink.queue) = 0 /\ ~sink.paused
    \/ /\ position = last_position
       /\ playback_start_time # None
       /\ Elapsed(playback_start_time) > Grace

PastGracePeriod_Always == TRUE

\* step 3 of the monitor
PastGracePeriod ==
    /\ playback_start_time_for_underrun # None
    /\ DurationSince(now, playback_start_time_for_underrun) > Grace

MonitorTick_IgnoresLoading ==
    /\ tick_due
    /\ MonitorActive
    /\ tick_due' = FALSE
    /\ last_position' = position
    /\ required_backoff' = RequiredBackoff(restart_attempts)
    /\ IF PotentialUnderrun /\ PastGracePeriod /\ PastBackoffPeriod
       THEN /\ underrun_detected' = TRUE
            /\ underruns' = underruns + 1
            /\ last_restart_time' = now
            /\ restart_attempts' = restart_attempts + 1
            /\ RestartPlayback
            /\ IF ValidSelection
               THEN ArmTracker
               ELSE UNCHANGED <<station_loading, playback_start_time_for_underrun>>
       ELSE /\ underrun_detected' = FALSE
            /\ op' = "monitor"
            /\ UNCHANGED <<now, loading, stations, selected, session, volume, sink, tasks,
                           plays, outcome, panicked, conv, seq, bindingPlayed,
                           station_loading, playback_start_time_for_underrun,
                           last_restart_time, restart_attempts, underruns>>
    /\ UNCHANGED <<arg, extra, connectLog, position>>

\* the monitor, once per UI tick while the state is Playing
MonitorTick ==
    /\ tick_due
    /\ MonitorActive
    /\ tick_due' = FALSE
    /\ last_position' = position
    /\ required_backoff' = RequiredBackoff(restart_attempts)
    /\ IF PotentialUnderrun /\ ~station_loading /\ PastGracePeriod /\ PastBackoffPeriod
       THEN /\ underrun_detected' = TRUE
            /\ underruns' = underruns + 1
            /\ last_restart_time' = now
            /\ restart_attempts' = restart_attempts + 1
            /\ RestartPlayback
            /\ IF ValidSelection
               THEN ArmTracker
               ELSE UNCHANGED <<station_loading, playback_start_time_for_underrun>>
       ELSE /\ underrun_detected' = FALSE
            /\ op' = "monitor"
            /\ UNCHANGED <<now, loading, stations, selected, session, volume, sink, tasks,
                           plays, outcome, panicked, conv, seq, bindingPlayed,
                           station_loading, playback_start_time_for_underrun,
                           last_restart_time, restart_attempts, underruns>>
    /\ UNCHANGED <<arg, extra, connectLog, position>>

\* a UI tick in state Paused or Stopped: the monitor does not run
MonitorIdle ==
    /\ tick_due
    /\ ~MonitorActive
    /\ tick_due' = FALSE
    /\ op' = "monitor_off"
    /\ UNCHANGED <<now, loading, stations, selected, session, volume, sink, tasks, plays,
                   outcome, panicked, conv, seq, bindingPlayed, arg, extra, connectLog, station_loading,
                   playback_start_time_for_underrun, last_restart_time, restart_attempts,
                   required_backoff, position, last_position, underrun_detected, underruns>>

MonitorKeys ==
    /\ KeyWindow
    /\ UNCHANGED aux
    /\ \/ StationsLoaded
       \/ HandlePause
       \/ HandleStop(FALSE)

\* a connect that fails sends no loading-cleared signal; whether the tick loop
\* ends the suppression on its Error entry is left open
MonitorConnectFail ==
    /\ ConnectFail
    /\ station_loading' \in {station_loading, FALSE}
    /\ UNCHANGED <<arg, extra, connectLog, playback_start_time_for_underrun, trackerRest>>

\* the tracker as earlier restarts of the session may have left it
InitMonitor ==
    /\ InitSession
    /\ InitTiming
    /\ InitHistory
    /\ arg = 0
    /\ station_loading = FALSE
    /\ playback_start_time_for_underrun = None
    /\ InitConnectLog
    /\ InitExtra
    /\ \E k \in {0, 1, MaxAttempts} :
          /\ restart_attempts = k
          /\ last_restart_time = IF k = 0 THEN None ELSE 0
    /\ required_backoff = 0
    /\ position = 0
    /\ last_position = 0
    /\ underrun_detected = FALSE
    /\ underruns = 0
    /\ tick_due = FALSE

NextMonitor ==
    \/ MonitorClock
    \/ MonitorTick
    \/ MonitorIdle
    \/ MonitorPlay
    \/ LoadingCleared
    \/ SourceEnds
    \/ MonitorKeys
    \/ MonitorConnectFail

SpecMonitor == InitMonitor /\ [][NextMonitor]_vars

\* the playback time the UI shows
Displayed ==
    IF playback_state = "Playing"
    THEN (IF playback_start_time # None
          THEN total_played + Elapsed(playback_start_time)
          ELSE total_played)
    ELSE total_played

TypeOK ==
    /\ now \in 0..MaxTime
    /\ playback_state \in {"Playing", "Paused", "Stopped"}
    /\ total_played \in Nat
    /\ volume \in Int

\* ---------------------------------------------------------------------------
\* Properties
\* ---------------------------------------------------------------------------

\* C1: PlaybackState is Playing only once the connect of the latest play has
\* succeeded and bound its source; while that connect is pending or has failed
\* the state is not Playing.
C1_PlayingOnlyAfterConnect ==
    outcome \in {"pending", "failed"} => playback_state # "Playing"

\* C2: the sink never holds more than one decoded source, whatever the order of
\* plays and of the completions of their connect tasks.
C2_OneLivePipeline == Len(sink.queue) <= 1

C4_DisplayedIsBindingTime == seq # "other" => Displayed = bindingPlayed

C6_PlayLastWins ==
    [][op' = "play" /\ ValidSelection /\ conv \in {"PS", "SP"}
         => active_station' = selected /\ playback_state' = "Playing"]_vars

C6_Witness ==
    /\ conv \in {"PSP", "SPP"}
    /\ op = "play"
    /\ plays = 2
    /\ playback_state = "Playing"
    /\ active_station = 1
    /\ \E t \in tasks : t.station = 0

C10_TotalPlayedMonotonic ==
    [][op' \in {"pause", "stop", "soft_stop", "volume_up", "volume_down", "up", "down",
                "restart"}
         => total_played' >= total_played]_vars

C10_Witness ==
    /\ op = "restart"
    /\ total_played > 0
    /\ playback_state = "Playing"
    /\ volume # VolumeInit

\* ---- format_duration ----
\* the durations the playback time is formatted for: hours of one, two and
\* three digits, minutes and seconds at both ends, with and without a
\* sub-second part
Durations ==
    {1000 * (3600 * h + 60 * m + sec) + ms :
        h \in {0, 1, 9, 10, 99, 100, 500}, m \in {0, 1, 9, 59}, sec \in {0, 1, 10, 30, 59},
        ms \in {0, 999}}

\* Duration::as_secs
AsSecs(d) == d \div 1000

DigitChar(k) == <<"0", "1", "2", "3", "4", "5", "6", "7", "8", "9">>[k + 1]

\* the decimal digits of n
RECURSIVE Digits(_)
Digits(n) == IF n < 10 THEN <<DigitChar(n)>> ELSE Digits(n \div 10) \o <<DigitChar(n % 10)>>

Pad2_None(n) == Digits(n)

\* {:02}
Pad2(n) == IF n < 10 THEN <<"0">> \o Digits(n) ELSE Digits(n)

FormatDuration(d) ==
    LET secs    == AsSecs(d)
        hours   == secs \div 3600
        minutes == (secs % 3600) \div 60
        seconds == secs % 60
    IN  Pad2(hours) \o <<":">> \o Pad2(minutes) \o <<":">> \o Pad2(seconds)

\* the playback time is formatted for the screen
Format ==
    /\ formatted' = FormatDuration(duration)
    /\ op' = "format"
    /\ UNCHANGED <<now, loading, stations, selected, session, volume, sink, tasks, plays,
                   outcome, panicked, conv, seq, bindingPlayed, arg, tracker, connectLog,
                   hostLoop, sinkLock, control, sent, duration>>

\* the next frame shows another time
NextFrame ==
    /\ duration' \in Durations
    /\ formatted' = <<>>
    /\ op' = "frame"
    /\ UNCHANGED <<now, loading, stations, selected, session, volume, sink, tasks, plays,
                   outcome, panicked, conv, seq, bindingPlayed, arg, tracker, connectLog,
                   hostLoop, sinkLock, control, sent>>

NextFormat ==
    \/ Format
    \/ NextFrame

SpecFormat == Init /\ [][NextFormat]_vars

\* C11: a play that starts a new station binding resets total_played to zero.
C11_PlayResetsTotalPlayed ==
    [][op' = "play" /\ ValidSelection => total_played' = 0]_vars

\* C18: an underrun restart leaves active_station as it was, wherever the
\* selection cursor has moved since the play.
C18_RestartKeepsStation ==
    [][op' = "restart" /\ active_station # None => active_station' = active_station]_vars

\* C19: SetVolume(v) stores v clamped to [0.0, 2.0], -1.0 as 0.0, 3.0 as 2.0 and
\* a value inside the range as it is, and sets the sink to the stored value;
\* a play hands the stored value to its connect task.
C19_SetVolumeClamps ==
    [][/\ op' = "set_volume"
            => /\ arg' < VolumeMin => volume' = VolumeMin
               /\ arg' > VolumeMax => volume' = VolumeMax
               /\ arg' >= VolumeMin /\ arg' <= VolumeMax => volume' = arg'
               /\ sink'.volume = volume'
       /\ op' = "play" /\ ValidSelection
            => \A t \in tasks' \ tasks : t.volume = volume]_vars

C19_Witness ==
    /\ op = "play"
    /\ arg = 402653184
    /\ volume = VolumeMax
    /\ sink.volume = VolumeMax
    /\ \E t \in tasks : t.volume = VolumeMax

\* C20: the stored volume stays within [0.0, 2.0] whatever the initial volume
\* in that range and whatever VolumeUp and VolumeDown commands follow.
C20_VolumeInRange == volume >= VolumeMin /\ volume <= VolumeMax

\* C14: the backoff the monitor requires is min(0.5 * 2^restart_attempts, 30.0)
\* seconds: 0.5, 1.0, 2.0, 4.0 for 0, 1, 2, 3 attempts, never above 30.0, and
\* not smaller after a restart has raised restart_attempts.
C14_BackoffDoublesToCap ==
    [][/\ op' = "monitor"
            => /\ 2 * required_backoff' = Min(4 * 2^restart_attempts, 2 * BackoffCap)
               /\ restart_attempts < 4
                    => required_backoff' = <<2, 4, 8, 16>>[restart_attempts + 1]
               /\ required_backoff' <= 120
       /\ restart_attempts' = restart_attempts + 1
            => RequiredBackoff(restart_attempts') >= RequiredBackoff(restart_attempts)]_vars

C14_Witness ==
    /\ op = "monitor"
    /\ restart_attempts = MaxAttempts
    /\ required_backoff = 120
    /\ last_restart_time # None

\* C13: no restart is triggered at a monitor tick that is not later than
\* playback_start_time_for_underrun + 5 s, whatever restart_attempts and
\* last_restart_time are.
C13_NoRestartInGrace ==
    [][op' = "restart"
         => /\ playback_start_time_for_underrun # None
            /\ now - playback_start_time_for_underrun > 20]_vars

C13_Witness ==
    /\ op = "monitor"
    /\ playback_state = "Playing"
    /\ sink.queue = <<>>
    /\ ~station_loading
    /\ restart_attempts = 0
    /\ now = playback_start_time_for_underrun + 20
    /\ ~underrun_detected
    /\ underruns = 0

\* C15: the loading-cleared signal of a bound stream sets restart_attempts to
\* zero, so that the next required backoff is 0.5 s; a triggered restart adds
\* one to restart_attempts; nothing else changes it.
C15_AttemptsResetOnSuccess ==
    [][/\ op' = "connect_ok" => restart_attempts' = 0 /\ RequiredBackoff(restart_attempts') = 2
       /\ op' = "restart" => restart_attempts' = restart_attempts + 1
       /\ restart_attempts' # restart_attempts => op' \in {"connect_ok", "restart"}]_vars

C15_Witness ==
    /\ op = "connect_ok"
    /\ restart_attempts = 0
    /\ underruns > 0
    /\ last_restart_time # None
    /\ ~station_loading

\* C17: the monitor declares an underrun, logs one or restarts only in a tick
\* where the state is Playing.
C17_MonitorOnlyWhilePlaying ==
    [][(op' = "restart" \/ underruns' # underruns \/ (underrun_detected' /\ ~underrun_detected))
         => playback_state = "Playing"]_vars

C17_Witness ==
    /\ op = "monitor_off"
    /\ playback_state = "Paused"
    /\ sink.queue = <<>>
    /\ position = last_position
    /\ ~station_loading
    /\ playback_start_time_for_underrun # None
    /\ now - playback_start_time_for_underrun > 20
    /\ underruns = 0

\* C12: every connect attempt that failed has, once its messages are in the
\* history log, at least one Error entry there.
C12_FailedConnectLogsError ==
    \A i \in 1..Len(connects) :
        /\ connects[i].result \in {"err", "unbound", "panicked"}
        /\ connects[i].watched
        /\ log_chan = <<>>
        => \E k \in 1..Len(history) : history[k] = Entry(i, "Error")

\* C29: playback_start_time is set exactly when the state is Playing.
C29_StartTimeIffPlaying == (playback_start_time # None) <=> (playback_state = "Playing")

\* C21: the volume of the sink is the stored volume, however plays, volume
\* keys and the binding of a stream interleave.
C21_SinkVolumeIsStored == sink.volume = volume

\* C30: with the cursor on a station, an underrun restart leaves the session
\* and the set of connect tasks as a Play command taken in the same state
\* leaves them: the station under the cursor bound, state Playing, a new
\* playback_start_time, the pause time folded and cleared, the sink stopped,
\* one more connect task for the station under the cursor.
C30_RestartIsPlay ==
    [][op' = "restart" /\ ValidSelection
         => /\ playback_state' = "Playing"
            /\ active_station' = selected
            /\ playback_start_time' = now
            /\ total_played' = IF last_pause_time = None THEN total_played
                               ELSE total_played + DurationSince(last_pause_time, now)
            /\ last_pause_time' = None
            /\ sink' = [sink EXCEPT !.queue = <<>>]
            /\ tasks' = tasks \cup {[id |-> plays + 1, station |-> selected,
                                    volume |-> volume]}
            /\ plays' = plays + 1]_vars

C30_Witness ==
    /\ op = "restart"
    /\ playback_state = "Playing"
    /\ active_station = selected
    /\ playback_start_time = now
    /\ now > 0
    /\ total_played > 0
    /\ \E t \in tasks : t.id = plays /\ t.station = selected

\* the number a sequence of digit characters writes; -1 when one is no digit
DigitOf(c) == IF \E k \in 0..9 : DigitChar(k) = c THEN CHOOSE k \in 0..9 : DigitChar(k) = c ELSE -1

RECURSIVE NumberOf(_)
NumberOf(cs) ==
    IF cs = <<>> THEN 0
    ELSE IF DigitOf(cs[Len(cs)]) < 0 \/ NumberOf(SubSeq(cs, 1, Len(cs) - 1)) < 0 THEN -1
    ELSE 10 * NumberOf(SubSeq(cs, 1, Len(cs) - 1)) + DigitOf(cs[Len(cs)])

\* C28: format_duration of s whole seconds is HH:MM:SS with HH = s div 3600,
\* MM = (s mod 3600) div 60, SS = s mod 60, MM and SS of two digits, HH of two
\* or more without a padding zero beyond the second, so that
\* 3600 HH + 60 MM + SS = s; the sub-second part plays no role.
C28_FormatDurationFields ==
    op = "format"
    => LET n  == Len(formatted)
           s  == duration \div 1000
           HH == NumberOf(SubSeq(formatted, 1, n - 6))
           MM == NumberOf(SubSeq(formatted, n - 4, n - 3))
           SS == NumberOf(SubSeq(formatted, n - 1, n))
       IN  /\ n >= 8
           /\ formatted[n - 2] = ":" /\ formatted[n - 5] = ":"
           /\ n > 8 => formatted[1] # "0"
           /\ HH = s \div 3600
           /\ MM = (s % 3600) \div 60
           /\ SS = s % 60
           /\ MM >= 0 /\ MM < 60 /\ SS >= 0 /\ SS < 60
           /\ 3600 * HH + 60 * MM + SS = s

C28_Witness ==
    /\ op = "format"
    /\ duration = 1000 * (3600 * 100 + 60 * 59 + 59) + 999
    /\ formatted = <<"1", "0", "0", ":", "5", "9", ":", "5", "9">>

IsPrefix(s, t) == Len(s) <= Len(t) /\ SubSeq(t, 1, Len(s)) = s

\* C22: the history only grows at its end; the messages sent and not yet
\* drained follow it in the order they were sent, so that the history together
\* with the channel only grows at its end too; and a drain moves the whole
\* content of the channel to the end of the history in channel order, no
\* message dropped, doubled or moved.
C22_LogInEmissionOrder ==
    [][/\ IsPrefix(history, history')
       /\ IsPrefix(history \o log_chan, history' \o log_chan')
       /\ op' = "drain" => /\ history' = history \o log_chan
                           /\ log_chan' = <<>>
       /\ op' \notin {"drain", "load_failed"} => history' = history]_vars

C22_Witness ==
    /\ op = "drain"
    /\ Len(history) >= 5
    /\ \E i, j, k \in 1..Len(history) :
          /\ i < j /\ j < k
          /\ history[i].task = 1 /\ history[j].task = 2 /\ history[k].task = 1
          /\ history[j].type # history[k].type

\* the steps of the tasks handle_play spawns: the connect task and its watcher
TaskOps == {"connect_ok", "connect_fail", "watcher"}

\* C23: a step of a background task (the connect task binding or failing, the
\* watcher reporting) leaves playback_state, active_station,
\* playback_start_time, total_played, last_pause_time and the stored volume as
\* they were, and the station list and the cursor too: it changes only the
\* sink and the log channel; every step that changes one of the session's
\* fields is a step of the tick loop, and the history is written by the tick
\* loop alone, when it drains the channel or reports the failed station fetch.
C23_OnlyTickLoopMutatesSession ==
    [][/\ op' \in TaskOps => /\ UNCHANGED <<session, volume>>
                             /\ UNCHANGED <<loading, stations, selected, history>>
       /\ (session' # session \/ volume' # volume) => op' \notin TaskOps
       /\ history' # history => op' \in {"drain", "load_failed"}]_vars

C23_Witness ==
    /\ op = "connect_ok"
    /\ playback_state = "Playing"
    /\ sink.queue # <<>>
    /\ log_chan # <<>>
    /\ \E i \in 1..Len(connects) : connects[i].result = "panicked"

\* C27: the result of the station fetch is taken once: loading never becomes
\* true again and nothing but the arrival of the result changes it; the
\* station list changes only when the Ok result arrives, while loading, and
\* never after; when the Err result arrives the list stays empty and one Error
\* entry of the fetch, the only one there ever is, is appended to the history.
C27_FetchResultOnce ==
    [][/\ loading' => loading
       /\ loading' # loading => op' \in {"loaded", "load_failed"}
       /\ op' \in {"loaded", "load_failed"} => loading /\ ~loading'
       /\ stations' # stations => op' = "loaded"
       /\ op' = "load_failed"
            => /\ stations' = 0
               /\ \A k \in 1..Len(history) : history[k].task # FetchTask
               /\ history' = Append(history, Entry(FetchTask, "Error"))
       /\ op' # "load_failed"
            => \A k \in 1..Len(history') : history'[k].task = FetchTask => k <= Len(history)]_vars

C27_Witness ==
    /\ op = "play"
    /\ ~loading
    /\ stations = 0
    /\ history = <<Entry(FetchTask, "Error")>>

\* C26: the step that applies Quit leaves the session as it was; once the
\* quit flag is set it stays set and no later step changes the session, the
\* stored volume, the cursor or the history; main leaves the loop only with
\* the flag set, and when it has left the loop the cleanup has stopped the
\* sink and main has come to its end.
C26_QuitIsTerminal ==
    [][/\ op' = "quit" => UNCHANGED <<session, volume, sink>>
       /\ should_quit => /\ should_quit'
                         /\ UNCHANGED <<session, volume, selected, stations, loading, history>>
       /\ host' # "loop" => /\ should_quit'
                            /\ host' = "exited"
                            /\ sink'.queue = <<>>]_vars

\* C24: the sink changes only in a step of the party that holds its lock; the
\* tick loop holds the lock only inside one handler and a task only inside the
\* block that binds the decoder, never while it waits for the network or the
\* log channel; whoever holds the lock has a step of its own towards the
\* release that waits for nobody, so the tick loop and a task never wait for
\* each other.
C24_SinkLockDiscipline ==
    /\ [](/\ holder # "free" => ENABLED HolderStep
          /\ holder = "loop" <=> loop_at # "idle"
          /\ holder = "task" <=> locker # 0)
    /\ [][/\ sink' # sink => holder # "free"
          /\ sink' # sink /\ op' \in TaskOps => holder = "task"
          /\ sink' # sink /\ op' \notin TaskOps => holder = "loop"
          /\ holder # "free" /\ holder' # "free" /\ holder' # holder => FALSE]_vars

C24_Witness ==
    /\ holder = "task"
    /\ locker = 2
    /\ op = "connect_ok"
    /\ sink.queue = <<2>>
    /\ \E t \in tasks : t.id = 1
    /\ playback_state = "Paused"

\* the command language of the control channel, datagram by datagram
WellFormed ==
    {<<"play">>, <<"stop">>, <<"toggle">>,
     <<"volume", "up">>, <<"volume", "down">>, <<"volume", "0.5">>, <<"volume", "7">>,
     <<"tune", "next">>, <<"tune", "prev">>, <<"tune", "7">>,
     <<"select", "up">>, <<"select", "down">>}

\* C25: a datagram that is no sentence of the command language puts no
\* command on the queue and leaves the session, the stored volume, the sink,
\* the cursor and the spawned tasks as they were, and the listener goes on
\* listening; a datagram that is a sentence puts exactly its command on the
\* queue; and the tick loop goes on: the commands queued before are still
\* applied (as long as the model follows further plays).
C25_MalformedDatagramDropped ==
    /\ [](listening /\ (cmd_queue # <<>> /\ plays < MaxPlays => ENABLED ApplyCommand))
    /\ [][op' = "datagram"
            => /\ UNCHANGED <<session, volume, sink, selected, stations, tasks, plays>>
               /\ listening'
               /\ datagram' \notin WellFormed
                    => /\ Parse(datagram') = NoCommand
                       /\ cmd_queue' = cmd_queue
               /\ datagram' \in WellFormed
                    => /\ Parse(datagram') # NoCommand
                       /\ cmd_queue' = Append(cmd_queue, Parse(datagram'))]_vars

C25_Witness ==
    /\ op = "datagram"
    /\ datagram = <<"volume", "bogus">>
    /\ cmd_queue = <<Command("Stop", 0)>>
    /\ playback_state = "Playing"
    /\ received = MaxDatagrams

\* C33: while the state is Stopped the sink holds no queued source, also when
\* a connect that was in flight at the stop completes afterwards.
C33_StoppedSinkEmpty == playback_state = "Stopped" => sink.queue = <<>>

\* C34: while the state is Paused the sink is paused, also when a connect that
\* was in flight at the pause completes afterwards.
C34_PausedSinkPaused == playback_state = "Paused" => sink.paused

\* C35: the playback time on display right after an underrun restart is not
\* smaller than the one right before it.
C35_RestartKeepsPlayedTime == [][op' = "restart" => Displayed' >= Displayed]_vars

\* C36: with a station list that is not empty the cursor, when set, is an
\* index of the list; SelectUp and SelectDown on an empty list leave the
\* cursor where it is, and no index arithmetic fails: the program never
\* panics in them.
C36_CursorInsideList ==
    [][/\ stations' # 0 /\ selected' # None => selected' >= 0 /\ selected' < stations'
       /\ op' \in {"up", "down"} /\ stations = 0 => selected' = selected
       /\ op' \in {"up", "down"} => panicked' = panicked]_vars

\* C37: a Play with the cursor on no station of the list changes neither
\* playback_state, active_station, playback_start_time, total_played nor
\* last_pause_time, leaves the sink and the stored volume alone and spawns no
\* connect task.
C37_PlayWithoutStationIsNoop ==
    [][op' = "play" /\ ~ValidSelection
         => UNCHANGED <<session, sink, volume, tasks, plays, outcome>>]_vars

C37_Witness ==
    /\ op = "play"
    /\ ~loading
    /\ stations = 0
    /\ selected = 0
    /\ tasks = {}
    /\ plays = 0
    /\ playback_state = "Stopped"

\* C38: active_station is None or an index of the station list; it is None
\* as long as no play or restart has taken effect; and it changes only in a
\* play or a restart taken with the cursor on a station, to the station under
\* the cursor.
C38_ActiveStationValid ==
    /\ [](/\ active_station # None => active_station >= 0 /\ active_station < stations
          /\ plays = 0 => active_station = None)
    /\ [][active_station' # active_station
            => /\ op' \in {"play", "restart"}
               /\ ValidSelection
               /\ active_station' = selected]_vars

C38_Witness ==
    /\ op = "restart"
    /\ active_station = 1
    /\ stations = NumStations
    /\ plays = MaxPlays
    /\ \E t \in tasks : t.station = 0

\* C31: when the monitor triggers a restart and an earlier restart has not
\* been followed by a successful reconnect, at least min(0.5 * 2^k, 30.0)
\* seconds have passed since that restart, k being restart_attempts as that
\* restart left it (2, 4, 8, ... up to 120 ticks of 250 ms); and a monitor
\* step that finds no earlier restart triggers one at once.
C31_BackoffBetweenRestarts ==
    [][/\ underruns' = underruns + 1 /\ last_restart_time # None
            => /\ restart_attempts >= 1
               /\ now - last_restart_time >= 2 * 2^restart_attempts \/ now - last_restart_time >= 120
               /\ now - last_restart_time >= 4
       /\ underruns' = underruns + 1
            => last_restart_time' = now /\ restart_attempts' = restart_attempts + 1
       /\ op' = "monitor" /\ last_restart_time = None /\ restart_attempts < MaxAttempts
            => underruns' = underruns + 1]_vars

C31_Witness ==
    /\ op = "monitor"
    /\ underrun_detected
    /\ restart_attempts = MaxAttempts
    /\ last_restart_time = now
    /\ now = 244
    /\ underruns = MaxAttempts

Of(p, msgs) == SelectSeq(msgs, LAMBDA m : m.task = p)

\* C39: the channel never holds more than 32 messages; the messages a
\* producer has sent are, in the order of sending and each exactly once, in
\* the history followed by the channel; a full channel gets room again, so a
\* sender that waits goes on; and in the end every producer has sent all its
\* messages and all of them are in the history.
C39_BackPressureWithoutLoss ==
    /\ [](Len(log_chan) <= 32)
    /\ [](\A p \in Producers :
             Of(p, history \o log_chan) = [k \in 1..sent[p] |-> LogMsg(p, k)])
    /\ (Len(log_chan) = 32) ~> (Len(log_chan) < 32)
    /\ <>[](/\ log_chan = <<>>
            /\ \A p \in Producers : /\ sent[p] = Quota(p)
                                    /\ Len(Of(p, history)) = Quota(p))

C39_Witness ==
    /\ Len(log_chan) = 32
    /\ sent[1] < Quota(1)
    /\ sent[2] < Quota(2)
    /\ history # <<>>
====
